---- MODULE Spec2Model ----
(***************************************************************************)
(* DataFactory 2.0: the job store, the execute_job pipeline, the history   *)
(* and log tables, the connectors' connect/close life cycle and the cron   *)
(* trigger layer of the REST API, as a state machine.                      *)
(*                                                                         *)
(* Sources: src/job_manager.py, src/datafactory_cli.py, src/connectors.py, *)
(* src/api.py.                                                             *)
(***************************************************************************)
EXTENDS Integers, Sequences, FiniteSets, TLC

VARIABLES
    jobs,          \* table jobs: job_id -> row, NoRow for an id with no row
    next_job_id,   \* AUTOINCREMENT counter of jobs.job_id
    job_history,   \* table job_history: sequence, history_id = index
    job_logs,      \* table job_logs: per history_id, its rows in log_id order
    sink_store,    \* what the sinks hold: <<sink_type, table_name>> -> rows
    triggers,      \* APScheduler job store: job_id -> trigger, NoTrigger
    paused,        \* scheduler.pause() / scheduler.resume()
    runs,          \* the invocations of execute_job, each with its locals
    faults,        \* whether the environment fails calls (database, network)
    clock_adjusts, \* whether the system clock is set back or read twice alike
    conn,          \* one connector instance driven directly (connect/close)
    calls          \* the calls made on conn, in order

vars == <<jobs, next_job_id, job_history, job_logs, sink_store, triggers,
          paused, runs, faults, clock_adjusts, conn, calls>>

(***************************************************************************)
(* Bounds of the model.                                                    *)
(***************************************************************************)
MaxJobs == 2        \* job ids ever assigned
MaxRuns == 2        \* invocations of execute_job
MaxRows == 1        \* rows a source yields in one extraction
MaxCalls == 3       \* calls made on the directly driven connector
MaxTime == 2        \* readings of a clock that is being adjusted

(***************************************************************************)
(* Values.  SQL NULL / Python None is NULL for text columns and NullInt    *)
(* for integer columns.                                                    *)
(***************************************************************************)
NULL == "NULL"
NullInt == 0 - 1

\* Job names are sequences of characters, so that the target name can be
\* computed from them character by character.
Names == { <<"J", " ", "1">>, <<"j", "_", "1">>, <<"j", "2">> }

\* A data frame of n rows: rows 1..n of the source.
Frame(n) == [i \in 1..n |-> i]
Frames == { Frame(n) : n \in 0..MaxRows }

SourceTypes == {"odbc", "postgresql", "mysql", "csv", "json", "excel"}
SinkTypes == {"sqlite", "postgresql", "mysql", "csv", "json", "parquet"}

(***************************************************************************)
(* Connectors (src/connectors.py).  A connector instance is its type and   *)
(* its two handles: engine is self.engine, connection is self.connection;  *)
(* "none" is None, the attribute's value after __init__.                   *)
(***************************************************************************)
NewSource(type) ==
    [kind |-> "source", type |-> type, engine |-> "none", connection |-> "none"]

NewSink(type) ==
    [kind |-> "sink", type |-> type, engine |-> "none", connection |-> "none"]

NoConnector ==
    [kind |-> "none", type |-> NULL, engine |-> "none", connection |-> "none"]

\* The outcome of a call on a connector: the connector afterwards and the
\* message of the exception raised, NULL when the call returned.
Outcome(c, raised) == [c |-> c, raised |-> raised]

\* connect(): the library call may fail (no file, no server, no driver).
SourceConnect(c) ==
    CASE c.type = "odbc" ->
           { Outcome([c EXCEPT !.connection = "open"], NULL),
             Outcome(c, "source connect failed") }
      [] c.type \in {"postgresql", "mysql"} ->
           { Outcome([c EXCEPT !.engine = "live", !.connection = "open"], NULL),
             Outcome(c, "source connect failed"),
             Outcome([c EXCEPT !.engine = "live"], "source connect failed") }
      [] OTHER ->  \* csv, json, excel: the file is read into self.df
           { Outcome(c, NULL), Outcome(c, "source connect failed") }

\* close() of a source.  The database sources close what is not None: a
\* connection that was closed stays in self.connection and is closed
\* again.  The library's close of an open connection may fail (the server
\* is gone); what its close of a closed connection does is the library's
\* choice (pyodbc) or nothing (SQLAlchemy).  The file sources do nothing.
SourceClose(c) ==
    CASE c.type = "odbc" ->
           IF c.connection = "none" THEN { Outcome(c, NULL) }
           ELSE { Outcome([c EXCEPT !.connection = "closed"], NULL),
                  Outcome(c, "source close failed") }
      [] c.type \in {"postgresql", "mysql"} ->
           LET disposed == IF c.engine = "none" THEN c
                           ELSE [c EXCEPT !.engine = "disposed"]
           IN CASE c.connection = "none" -> { Outcome(disposed, NULL) }
                [] c.connection = "closed" -> { Outcome(disposed, NULL) }
                [] OTHER ->
                     { Outcome([disposed EXCEPT !.connection = "closed"], NULL),
                       Outcome(c, "source close failed") }
      [] OTHER -> { Outcome(c, NULL) }

\* connect() of a sink.  MySQLSinkConnector.connect has only its docstring
\* for a body (the rest of it sits after a return in get_preview), so it
\* leaves self.engine None.
SinkConnect(c) ==
    CASE c.type \in {"sqlite", "postgresql"} ->
           { Outcome([c EXCEPT !.engine = "live"], NULL),
             Outcome(c, "sink connect failed") }
      [] c.type = "mysql" -> { Outcome(c, NULL) }
      [] OTHER ->  \* csv, json, parquet: os.makedirs
           { Outcome(c, NULL), Outcome(c, "sink connect failed") }

NoneDispose == "'NoneType' object has no attribute 'dispose'"

\* close() of a sink.  In SQLiteSinkConnector and PostgreSQLSinkConnector
\* the "if self.engine:" guards two nested function definitions only, and
\* self.engine.dispose() runs whatever self.engine is.
SinkClose(c) ==
    CASE c.type \in {"sqlite", "postgresql"} ->
           IF c.engine = "none" THEN { Outcome(c, NoneDispose) }
           ELSE { Outcome([c EXCEPT !.engine = "disposed"], NULL) }
      [] c.type = "mysql" ->
           IF c.engine = "none" THEN { Outcome(c, NULL) }
           ELSE { Outcome([c EXCEPT !.engine = "disposed"], NULL) }
      [] OTHER -> { Outcome(c, NULL) }

\* What the environment lets happen: with no faults, a call that can return
\* returns.
Env(outcomes) ==
    IF faults \/ \A o \in outcomes : o.raised # NULL THEN outcomes
    ELSE { o \in outcomes : o.raised = NULL }

DbOk == IF faults THEN BOOLEAN ELSE {TRUE}

Connect(c) == IF c.kind = "source" THEN SourceConnect(c) ELSE SinkConnect(c)
Close(c) == IF c.kind = "source" THEN SourceClose(c) ELSE SinkClose(c)

(***************************************************************************)
(* The connector registry (JobManager._create_source_connector and         *)
(* _create_sink_connector).  A configuration is the set of its keys: it is *)
(* passed as keyword arguments, so a missing required key and a key the    *)
(* constructor does not take both raise TypeError.                         *)
(***************************************************************************)
DbKeys == {"host", "port", "database", "user", "password"}

SourceRequired(type) ==
    CASE type = "odbc" -> {"dsn", "database"}
      [] type \in {"postgresql", "mysql"} -> DbKeys
      [] OTHER -> {"file_path"}

SourceOptional(type) ==
    CASE type \in {"odbc", "postgresql"} -> {"schema"}
      [] type = "excel" -> {"sheet_name"}
      [] OTHER -> {}

SinkRequired(type) ==
    CASE type = "sqlite" -> {"database_path"}
      [] type \in {"postgresql", "mysql"} -> DbKeys
      [] OTHER -> {"directory"}

\* str(TypeError) of a constructor called with **config: Python binds the
\* keywords first, so a key the constructor does not take is reported, by
\* its name, before the required keys that are missing, which are all
\* named.
RECURSIVE Quoted(_)
Quoted(keys) ==
    IF keys = {} THEN ""
    ELSE LET k == CHOOSE x \in keys : TRUE
         IN " '" \o k \o "'" \o Quoted(keys \ {k})

MissingArgument(keys) == "missing required arguments:" \o Quoted(keys)
UnexpectedArgument(keys) ==
    "got an unexpected keyword argument" \o Quoted({CHOOSE k \in keys : TRUE})
UnknownSourceType == "Unknown source type"
UnknownSinkType == "Unknown sink type"

Construct(c, required, optional, config) ==
    IF ~(config \subseteq required \cup optional)
    THEN Outcome(NoConnector,
                 UnexpectedArgument(config \ (required \cup optional)))
    ELSE IF ~(required \subseteq config)
         THEN Outcome(NoConnector, MissingArgument(required \ config))
         ELSE Outcome(c, NULL)

CreateSourceConnector(source_type, config) ==
    IF source_type \in SourceTypes
    THEN Construct(NewSource(source_type), SourceRequired(source_type),
                   SourceOptional(source_type), config)
    ELSE Outcome(NoConnector, UnknownSourceType)

CreateSinkConnector(sink_type, config) ==
    IF sink_type \in SinkTypes
    THEN Construct(NewSink(sink_type), SinkRequired(sink_type), {}, config)
    ELSE Outcome(NoConnector, UnknownSinkType)

(***************************************************************************)
(* The target name: job_name.replace(' ', '_').lower()                     *)
(***************************************************************************)
\* A variant of TableName that keeps the case of the name.
TableNameKeepsCase(job_name) ==
    [i \in 1..Len(job_name) |->
        IF job_name[i] = " " THEN "_" ELSE job_name[i]]

Lower(ch) ==
    CASE ch = "J" -> "j"
      [] ch = "T" -> "t"
      [] OTHER -> ch

TableName(job_name) ==
    [i \in 1..Len(job_name) |->
        IF job_name[i] = " " THEN "_" ELSE Lower(job_name[i])]

TableNames == { TableName(n) : n \in Names }

(***************************************************************************)
(* Sink writes.  The SQL sinks write with if_exists='replace' through      *)
(* self.engine; the file sinks write the file anew.  The library call may  *)
(* fail, and fails when the engine is None.                                *)
(***************************************************************************)
NoTable == [exists |-> FALSE, rows |-> <<>>]
Table(df) == [exists |-> TRUE, rows |-> df]
WriteFailed == "sink write failed"

\* A variant of Replace: if_exists='append'.
AppendRows(old, df) == Table(old.rows \o df)

\* What to_sql / to_csv / to_json / to_parquet leave in the target.
Replace(old, df) == Table(df)

SinkWrite(c, store, table_name, df) ==
    LET key == <<c.type, table_name>>
        written == [store EXCEPT ![key] = Replace(store[key], df)]
    IN IF c.type \in {"sqlite", "postgresql", "mysql"} /\ c.engine # "live"
       THEN { [store |-> store, raised |-> WriteFailed] }
       ELSE { [store |-> written, raised |-> NULL],
              [store |-> store, raised |-> WriteFailed] }

(***************************************************************************)
(* The job store (JobManager.create_job .. delete_job).                    *)
(***************************************************************************)
JobIds == 1..MaxJobs

\* json.dumps of a configuration dictionary: the text that names its keys
\* one after the other.  A configuration is modelled by the set of its keys,
\* the text by the sequence of them.
RECURSIVE JsonDumps(_)
JsonDumps(config) ==
    IF config = {} THEN <<>>
    ELSE LET k == CHOOSE x \in config : TRUE
         IN <<k>> \o JsonDumps(config \ {k})

\* json.loads of such a text: the dictionary with the keys the text names.
JsonLoads(text) == { text[i] : i \in DOMAIN text }

\* sqlite3 stores a Python bool in the INTEGER column enabled as 0 or 1;
\* get_job reads it back with bool(row[8]).
ToInteger(b) == IF b THEN 1 ELSE 0
Bool(i) == i # 0

\* No row in the table jobs for an id.
NoRow ==
    [exists |-> FALSE, job_name |-> <<>>,
     source_type |-> NULL, source_config |-> <<>>,
     sink_type |-> NULL, sink_config |-> <<>>,
     query |-> NULL, schedule |-> NULL, enabled |-> 0,
     updated_at |-> NULL]

\* None: what get_job returns for an id that is not stored.
NoJob ==
    [exists |-> FALSE, job_name |-> <<>>,
     source_type |-> NULL, source_config |-> {},
     sink_type |-> NULL, sink_config |-> {},
     query |-> NULL, schedule |-> NULL, enabled |-> FALSE,
     updated_at |-> NULL]

\* The row create_job inserts; created_at and updated_at are both the time
\* of the INSERT: updated_at is "created" until an UPDATE sets it anew.
JobRow(job_name, source_type, source_config, sink_type, sink_config, query, schedule) ==
    [exists |-> TRUE, job_name |-> job_name,
     source_type |-> source_type, source_config |-> JsonDumps(source_config),
     sink_type |-> sink_type, sink_config |-> JsonDumps(sink_config),
     query |-> query, schedule |-> schedule,
     enabled |-> 1,    \* enabled INTEGER DEFAULT 1
     updated_at |-> "created"]

Stored == { j \in JobIds : jobs[j].exists }

\* job_name TEXT UNIQUE: the INSERT or UPDATE raises IntegrityError when
\* another row holds the name.
\* A variant of NameTaken: a jobs table without the UNIQUE constraint.
NameNeverTaken(job_name, except) == FALSE

NameTaken(job_name, except) ==
    \E j \in Stored \ except : jobs[j].job_name = job_name

\* get_job: the row as a dictionary, with the configurations decoded by
\* json.loads and enabled as a bool; None when there is no row.
GetJob(job_id) ==
    IF job_id \in JobIds /\ jobs[job_id].exists
    THEN [jobs[job_id] EXCEPT !.source_config = JsonLoads(@),
                              !.sink_config = JsonLoads(@),
                              !.enabled = Bool(@)]
    ELSE NoJob

\* update_job: the allowed fields of kwargs, set in one UPDATE.
AllowedFields == {"job_name", "source_type", "source_config", "sink_type",
                  "sink_config", "query", "schedule", "enabled"}

Updates(kwargs) == DOMAIN kwargs \cap AllowedFields

\* The value update_job binds for a field: json.dumps of a configuration,
\* 0 or 1 for enabled, the value itself for the other fields.
Bound(f, value) ==
    IF f \in {"source_config", "sink_config"} THEN JsonDumps(value)
    ELSE IF f = "enabled" THEN ToInteger(value)
         ELSE value

\* A variant of UpdatedRow whose UPDATE does not set updated_at.
UpdatedRowKeepsTime(row, kwargs) ==
    [f \in DOMAIN row |->
        IF f \in Updates(kwargs) THEN Bound(f, kwargs[f]) ELSE row[f]]

\* The row after "UPDATE jobs SET <the allowed fields given>, updated_at".
UpdatedRow(row, kwargs) ==
    [f \in DOMAIN row |->
        IF f \in Updates(kwargs) THEN Bound(f, kwargs[f])
        ELSE IF f = "updated_at" THEN "updated"
             ELSE row[f]]

IntegrityError == "UNIQUE constraint failed: jobs.job_name"

\* A variant of LastRowId: job_id INTEGER PRIMARY KEY without AUTOINCREMENT,
\* which gives one more than the largest id the table holds now.
LastRowIdOfTable ==
    IF Stored = {} THEN 1
    ELSE (CHOOSE j \in Stored : \A i \in Stored : i <= j) + 1

\* cursor.lastrowid of the INSERT into jobs: job_id INTEGER PRIMARY KEY
\* AUTOINCREMENT gives one more than the largest id the table ever held.
LastRowId == next_job_id

\* create_job: the INSERT, which raises on a name that is taken, and the
\* job_id returned.
CreateJob(job_name, source_type, source_config, sink_type, sink_config, query, schedule) ==
    IF NameTaken(job_name, {})
    THEN [raised |-> IntegrityError, job_id |-> 0, jobs |-> jobs]
    ELSE [raised |-> NULL, job_id |-> LastRowId,
          jobs |-> [jobs EXCEPT ![LastRowId] =
                      JobRow(job_name, source_type, source_config,
                             sink_type, sink_config, query, schedule)]]

\* update_job: False when no allowed field is given; otherwise the UPDATE,
\* which raises when it would give the row a name another row holds, and
\* "rowcount > 0".
UpdateJob(job_id, kwargs) ==
    IF Updates(kwargs) = {} \/ ~GetJob(job_id).exists
    THEN [raised |-> NULL, returned |-> FALSE, jobs |-> jobs]
    ELSE IF "job_name" \in Updates(kwargs)
            /\ NameTaken(kwargs.job_name, {job_id})
         THEN [raised |-> IntegrityError, returned |-> FALSE, jobs |-> jobs]
         ELSE [raised |-> NULL, returned |-> TRUE,
               jobs |-> [jobs EXCEPT ![job_id] = UpdatedRow(@, kwargs)]]

\* delete_job: the DELETE and "rowcount > 0".
DeleteJob(job_id) ==
    [returned |-> GetJob(job_id).exists,
     jobs |-> [j \in JobIds |-> IF j = job_id THEN NoRow ELSE jobs[j]]]

(***************************************************************************)
(* The scheduler.  A trigger is what scheduler.add_job registered under    *)
(* the id job_<job_id>: the name given and the cron expression.            *)
(***************************************************************************)
NoTrigger == [exists |-> FALSE]
Trigger(name, cron) == [exists |-> TRUE, name |-> name, cron |-> cron]

GoodCron == "0 * * * *"
BadCron == "not-a-cron"

\* CronTrigger.from_crontab raises ValueError unless the expression has
\* five valid fields.
ValidCron(schedule) == schedule = GoodCron

\* "if job.schedule:" / "if schedule:" -- None and "" are falsy.
Truthy(schedule) == schedule # NULL /\ schedule # ""

\* A variant of AddJob whose trigger is registered whatever the expression.
AddJobUnchecked(trigs, job_id, name, schedule) ==
    [trigs EXCEPT ![job_id] = Trigger(name, schedule)]

\* scheduler.add_job(..., replace_existing=True) inside its try/except.
AddJob(trigs, job_id, name, schedule) ==
    IF ValidCron(schedule)
    THEN [trigs EXCEPT ![job_id] = Trigger(name, schedule)]
    ELSE trigs

\* A variant of RemoveJob that leaves the trigger in the scheduler.
RemoveJobKeeps(trigs, job_id) == trigs

\* scheduler.remove_job inside try/except: pass.
RemoveJob(trigs, job_id) == [trigs EXCEPT ![job_id] = NoTrigger]

\* GET /scheduler/jobs (src/api.py 320-334): the id and the name of
\* every job the scheduler holds, and its trigger.
GetScheduledJobs ==
    { [id |-> j, name |-> triggers[j].name, trigger |-> triggers[j].cron] :
        j \in { i \in DOMAIN triggers : triggers[i].exists } }

\* BackgroundScheduler() and scheduler.start() at the import of src/api.py
\* (26-28): a scheduler with the default job store, which is in memory
\* and starts empty, and which runs.
StartScheduler == [j \in DOMAIN triggers |-> NoTrigger]

(***************************************************************************)
(* Invocations of execute_job.                                             *)
(***************************************************************************)
RunIds == 1..MaxRuns

NoResult == [status |-> "none"]
NoResponse == [code |-> 0]

IdleRun ==
    [pc |-> "idle", via |-> "none", job_id |-> 0, job |-> NoJob,
     history_id |-> 0, source |-> NoConnector, sink |-> NoConnector,
     query |-> NULL, df |-> <<>>, records_processed |-> NullInt,
     table_name |-> <<>>, error_message |-> NULL, close_called |-> {},
     result |-> NoResult, response |-> NoResponse]

Active(r) == runs[r].pc \notin {"idle", "done"}

\* The API's handlers are "async def" and never await: one runs at a time
\* on the event loop, an execute request until execute_job has returned.
ApiBusy == \E r \in RunIds : Active(r) /\ runs[r].via = "api"

(***************************************************************************)
(* The API's job management endpoints (src/api.py).                        *)
(***************************************************************************)
\* POST /jobs
ApiCreateJob(job_name, source_type, source_config, sink_type, sink_config, query, schedule) ==
    /\ ~ApiBusy
    /\ next_job_id <= MaxJobs
    /\ LET created == CreateJob(job_name, source_type, source_config,
                                sink_type, sink_config, query, schedule)
       IN IF created.raised # NULL
       THEN UNCHANGED <<jobs, next_job_id, triggers>>    \* 400
       ELSE /\ jobs' = created.jobs
            /\ next_job_id' = next_job_id + 1
            /\ triggers' = IF Truthy(schedule)
                           THEN AddJob(triggers, created.job_id, job_name, schedule)
                           ELSE triggers
    /\ UNCHANGED <<job_history, job_logs, sink_store, paused, runs, faults,
                   clock_adjusts, conn, calls>>

\* PUT /jobs/{job_id}; job_update is the fields of the request that are
\* not None.
ApiUpdateJob(job_id, job_update) ==
    /\ ~ApiBusy
    /\ DOMAIN job_update # {}
    /\ LET updated == UpdateJob(job_id, job_update)
       IN IF ~updated.returned
       THEN UNCHANGED <<jobs, triggers>>     \* IntegrityError: 500; False: 404
       ELSE /\ jobs' = updated.jobs
            /\ triggers' =
                 IF "schedule" \in DOMAIN job_update
                 THEN LET removed == RemoveJob(triggers, job_id)
                      IN IF Truthy(job_update.schedule)
                         THEN AddJob(removed, job_id,
                                     updated.jobs[job_id].job_name,
                                     job_update.schedule)
                         ELSE removed
                 ELSE triggers
    /\ UNCHANGED <<next_job_id, job_history, job_logs, sink_store, paused,
                   runs, faults, clock_adjusts, conn, calls>>

\* DELETE /jobs/{job_id}
ApiDeleteJob(job_id) ==
    /\ ~ApiBusy
    /\ triggers' = RemoveJob(triggers, job_id)
    /\ jobs' = DeleteJob(job_id).jobs
    /\ UNCHANGED <<next_job_id, job_history, job_logs, sink_store, paused,
                   runs, faults, clock_adjusts, conn, calls>>

\* The process is stopped while no run is in progress and started again
\* on the same jobs.db (src/api.py 23-28, JobManager.__init__): the
\* tables and the sinks are as they were left, the scheduler is new.
Restart ==
    /\ \A r \in RunIds : ~Active(r)
    /\ triggers' = StartScheduler
    /\ paused' = FALSE
    /\ UNCHANGED <<jobs, next_job_id, job_history, job_logs, sink_store,
                   runs, faults, clock_adjusts, conn, calls>>

\* POST /scheduler/pause and /scheduler/resume
ApiPauseScheduler ==
    /\ ~ApiBusy
    /\ ~paused
    /\ paused' = TRUE
    /\ UNCHANGED <<jobs, next_job_id, job_history, job_logs, sink_store,
                   triggers, runs, faults, clock_adjusts, conn, calls>>

ApiResumeScheduler ==
    /\ ~ApiBusy
    /\ paused
    /\ paused' = FALSE
    /\ UNCHANGED <<jobs, next_job_id, job_history, job_logs, sink_store,
                   triggers, runs, faults, clock_adjusts, conn, calls>>

(***************************************************************************)
(* What the endpoints answer: the status code and the message or detail.   *)
(***************************************************************************)
Answer(code, message) == [code |-> code, message |-> message]

SchedulingFailed(schedule) == Truthy(schedule) /\ ~ValidCron(schedule)

\* POST /jobs
CreateJobResponse(job_name, source_type, source_config, sink_type, sink_config, query, schedule) ==
    LET created == CreateJob(job_name, source_type, source_config,
                             sink_type, sink_config, query, schedule)
    IN IF created.raised # NULL THEN Answer(400, created.raised)
       ELSE IF SchedulingFailed(schedule)
            THEN Answer(201, "Job created but scheduling failed")
            ELSE Answer(201, "Job created successfully")

\* PUT /jobs/{job_id}
UpdateJobResponse(job_id, job_update) ==
    IF DOMAIN job_update = {} THEN Answer(400, "No update data provided")
    ELSE LET updated == UpdateJob(job_id, job_update)
         IN IF updated.raised # NULL THEN Answer(500, updated.raised)
            ELSE IF ~updated.returned THEN Answer(404, "Job not found")
            ELSE IF "schedule" \in DOMAIN job_update
                    /\ SchedulingFailed(job_update.schedule)
                 THEN Answer(200, "Job updated but scheduling failed")
                 ELSE Answer(200, "Job updated successfully")

\* DELETE /jobs/{job_id}
DeleteJobResponse(job_id) ==
    IF DeleteJob(job_id).returned
    THEN Answer(200, "Job deleted successfully")
    ELSE Answer(404, "Job not found")

\* GET /jobs/{job_id}
GetJobResponse(job_id) ==
    IF GetJob(job_id).exists THEN Answer(200, "job") ELSE Answer(404, "Job not found")

(***************************************************************************)
(* The history and log queries (src/job_manager.py 398-482).               *)
(***************************************************************************)
HistoryLimit == 50      \* get_job_history(job_id, limit=50)

\* "ORDER BY started_at DESC LIMIT ?" over the history rows ids, which the
\* scan yields in history_id order: their history_ids, the latest
\* started_at first.  Rows of equal started_at come in the order of the
\* scan (SQLite's sorter keeps it).  LIMIT with a negative number is no
\* limit.
Newest(ids, limit) ==
    LET Before(k, i) ==
            \/ job_history[k].started_at > job_history[i].started_at
            \/ /\ job_history[k].started_at = job_history[i].started_at
               /\ k < i
        Rank(i) == Cardinality({ k \in ids : Before(k, i) }) + 1
        n == IF limit < 0 \/ limit > Cardinality(ids)
             THEN Cardinality(ids) ELSE limit
    IN [p \in 1..n |-> CHOOSE i \in ids : Rank(i) = p]

\* A variant of get_job_history that joins the jobs table.
GetJobHistoryOfStored(job_id) ==
    IF GetJob(job_id).exists
    THEN LET ids == { h \in 1..Len(job_history) : job_history[h].job_id = job_id }
             newest == Newest(ids, HistoryLimit)
         IN [i \in 1..Len(newest) |->
               [history_id |-> newest[i], row |-> job_history[newest[i]]]]
    ELSE <<>>

\* A variant of get_job_history that takes job_name from the jobs table.
GetJobHistoryLiveName(job_id) ==
    LET ids == { h \in 1..Len(job_history) : job_history[h].job_id = job_id }
        newest == Newest(ids, HistoryLimit)
    IN [i \in 1..Len(newest) |->
          [history_id |-> newest[i],
           row |-> [job_history[newest[i]] EXCEPT
                      !.job_name = GetJob(job_id).job_name]]]

\* get_job_history(job_id, limit): the job's rows, the newest first.
GetJobHistoryLimit(job_id, limit) ==
    LET ids == { h \in 1..Len(job_history) : job_history[h].job_id = job_id }
        newest == Newest(ids, limit)
    IN [i \in 1..Len(newest) |->
          [history_id |-> newest[i], row |-> job_history[newest[i]]]]

\* get_job_history(job_id), limit = 50
GetJobHistory(job_id) == GetJobHistoryLimit(job_id, HistoryLimit)

NoLastRun == [exists |-> FALSE]

\* A variant of LastRun: the latest run that has finished.
LastRunCompleted(job_id) ==
    LET ids == { h \in 1..Len(job_history) :
                   /\ job_history[h].job_id = job_id
                   /\ job_history[h].status # "running" }
        newest == Newest(ids, 1)
    IN IF newest = <<>> THEN NoLastRun
       ELSE [exists |-> TRUE,
             started_at |-> job_history[newest[1]].started_at,
             completed_at |-> job_history[newest[1]].completed_at,
             status |-> job_history[newest[1]].status,
             records_processed |-> job_history[newest[1]].records_processed]

\* The last_run of get_job_with_last_run and list_jobs_with_last_run: the
\* four columns of the row of "ORDER BY started_at DESC LIMIT 1", None
\* (NoLastRun) when the job has no row.
LastRun(job_id) ==
    LET ids == { h \in 1..Len(job_history) : job_history[h].job_id = job_id }
        newest == Newest(ids, 1)
    IN IF newest = <<>> THEN NoLastRun
       ELSE [exists |-> TRUE,
             started_at |-> job_history[newest[1]].started_at,
             completed_at |-> job_history[newest[1]].completed_at,
             status |-> job_history[newest[1]].status,
             records_processed |-> job_history[newest[1]].records_processed]

\* get_job_with_last_run: None (NoJob) for an id with no row, else the job
\* and its last_run.
GetJobWithLastRun(job_id) ==
    IF ~GetJob(job_id).exists THEN [job |-> NoJob, last_run |-> NoLastRun]
    ELSE [job |-> GetJob(job_id), last_run |-> LastRun(job_id)]

\* list_jobs_with_last_run: every stored job with its last_run.
ListJobsWithLastRun == { GetJobWithLastRun(j) : j \in Stored }

\* "ORDER BY timestamp" over the rows of a history_id, which the scan
\* yields in log_id order: the log_ids, here the positions in the run's
\* log, by timestamp.  SQL leaves the order of rows of equal timestamp
\* open; SQLite's sorter keeps them in the order of the scan.
LogOrder(rows) ==
    LET Before(k, i) ==
            \/ rows[k].timestamp < rows[i].timestamp
            \/ rows[k].timestamp = rows[i].timestamp /\ k < i
        Rank(i) == Cardinality({ k \in 1..Len(rows) : Before(k, i) }) + 1
    IN [p \in 1..Len(rows) |-> CHOOSE i \in 1..Len(rows) : Rank(i) = p]

\* get_job_logs: the log lines of a history_id as the query orders them;
\* the detail of the message is part of the message column.
GetJobLogs(history_id) ==
    IF history_id \in 1..Len(job_logs)
    THEN LET rows == job_logs[history_id]
             order == LogOrder(rows)
         IN [p \in 1..Len(rows) |-> rows[order[p]]]
    ELSE <<>>

(***************************************************************************)
(* execute_job (src/job_manager.py 246-352), one action per statement      *)
(* group.  Every INSERT or UPDATE on the job database may raise            *)
(* (sqlite3.OperationalError: the database is locked, the disk is full).   *)
(***************************************************************************)
DbError == "database is locked"

\* datetime.now().isoformat() as read for started_at: left alone, the
\* clock reads later at each run that starts.
StartTimes ==
    IF clock_adjusts THEN 1..MaxTime ELSE {Len(job_history) + 1}

HistoryRow(job_id, job_name, started_at) ==
    [job_id |-> job_id, job_name |-> job_name, started_at |-> started_at,
     completed_at |-> NULL, status |-> "running",
     records_processed |-> NullInt, error_message |-> NULL]

\* datetime.now().isoformat() as read for the next log line of a run: the
\* local wall clock.  Left alone, it reads later at each line of the run;
\* adjusted (NTP, the end of daylight saving time) or coarse, it reads
\* anything.
Timestamps(history_id) ==
    IF clock_adjusts THEN 1..MaxTime
    ELSE {Len(job_logs[history_id]) + 1}

\* A variant of LogRow that files the line under the history id in both
\* columns.
LogRowOfHistory(history_id, job_id, timestamp, level, message, detail) ==
    [history_id |-> history_id, job_id |-> history_id, timestamp |-> timestamp,
     level |-> level, message |-> message, detail |-> detail]

\* The row log_message inserts (275-278).
LogRow(history_id, job_id, timestamp, level, message, detail) ==
    [history_id |-> history_id, job_id |-> job_id, timestamp |-> timestamp,
     level |-> level, message |-> message, detail |-> detail]

\* A variant of LogInsert that leaves the row in the connection's open
\* transaction: no other connection sees it.
LogInsertUncommitted(logs, row) == logs

\* log_message: the INSERT and conn.commit() (275-279); logs is the table
\* as every connection sees it.
LogInsert(logs, row) == [logs EXCEPT ![row.history_id] = Append(@, row)]

\* The response of POST /jobs/{job_id}/execute to what execute_job did.
Response(run, result) ==
    IF run.via # "api" THEN NoResponse
    ELSE IF result.status = "raised" THEN [code |-> 500]
         ELSE [code |-> 200]

\* execute_job ends: it returns result, or raises (result.status =
\* "raised"), and its locals are gone.  What is kept of them is what the
\* invocation did: the history row it inserted, the connectors it built
\* and closed, the table it wrote.
Finished(run, result) ==
    [run EXCEPT !.pc = "done", !.result = result,
                !.response = Response(run, result),
                !.job = NoJob, !.query = NULL, !.df = <<>>,
                !.records_processed = NullInt]

\* An exception raised inside the try block.
Raised(run, message) ==
    [run EXCEPT !.pc = "except", !.error_message = message]

\* log_message(level, message), then on to next_pc; run is the invocation
\* as the statements before the log line left it.
LogMessage(r, run, level, message, detail, next_pc) ==
    \E db_ok \in DbOk, timestamp \in Timestamps(run.history_id) :
        IF db_ok
        THEN /\ job_logs' = LogInsert(job_logs,
                    LogRow(run.history_id, run.job_id, timestamp, level,
                           message, detail))
             /\ runs' = [runs EXCEPT ![r] = [run EXCEPT !.pc = next_pc]]
        ELSE /\ job_logs' = job_logs
             /\ runs' = [runs EXCEPT ![r] = Raised(run, DbError)]

Starts(r) ==
    /\ runs[r].pc = "idle"
    /\ \A q \in RunIds : q < r => runs[q].pc # "idle"

\* POST /jobs/{job_id}/execute (src/api.py 245-260)
ApiExecuteJob(r, job_id) ==
    /\ ~ApiBusy
    /\ Starts(r)
    /\ runs' = [runs EXCEPT ![r] =
                  IF GetJob(job_id).exists
                  THEN [@ EXCEPT !.pc = "get_job", !.via = "api",
                                 !.job_id = job_id]
                  ELSE [@ EXCEPT !.pc = "done", !.via = "api",
                                 !.job_id = job_id,
                                 !.response = [code |-> 404]]]
    /\ UNCHANGED <<jobs, next_job_id, job_history, job_logs, sink_store,
                   triggers, paused, faults, clock_adjusts, conn, calls>>

\* A variant of Fire for a scheduler that fires while it is paused.
FireWhilePaused(r, job_id) ==
    /\ triggers[job_id].exists
    /\ ~\E q \in RunIds : Active(q) /\ runs[q].via = "sched"
                           /\ runs[q].job_id = job_id
    /\ Starts(r)
    /\ runs' = [runs EXCEPT ![r] = [@ EXCEPT !.pc = "get_job", !.via = "sched",
                                             !.job_id = job_id]]
    /\ UNCHANGED <<jobs, next_job_id, job_history, job_logs, sink_store,
                   triggers, paused, faults, clock_adjusts, conn, calls>>

\* A trigger fires: the scheduler calls the lambda registered by add_job,
\* on a thread of its own.  add_job is called without max_instances, so a
\* trigger whose previous call has not returned does not fire.
Fire(r, job_id) ==
    /\ ~paused
    /\ triggers[job_id].exists
    /\ ~\E q \in RunIds : Active(q) /\ runs[q].via = "sched"
                           /\ runs[q].job_id = job_id
    /\ Starts(r)
    /\ runs' = [runs EXCEPT ![r] = [@ EXCEPT !.pc = "get_job", !.via = "sched",
                                             !.job_id = job_id]]
    /\ UNCHANGED <<jobs, next_job_id, job_history, job_logs, sink_store,
                   triggers, paused, faults, clock_adjusts, conn, calls>>

\* 254-258: the message of the pre-flight rejection, NULL when there is
\* none.
\* Variants of PreFlightError that leave out one of its two checks.
PreFlightIgnoresEnabled(job) ==
    IF ~job.exists THEN "Job not found" ELSE NULL

PreFlightIgnoresMissing(job) ==
    IF ~job.enabled THEN "Job is disabled" ELSE NULL

PreFlightError(job) ==
    IF ~job.exists THEN "Job not found"
    ELSE IF ~job.enabled THEN "Job is disabled"
         ELSE NULL

\* A variant of PreFlight for a trigger that keeps the definition it was
\* registered with: a run it starts has the name given to add_job.
PreFlightAsRegistered(r) ==
    /\ runs[r].pc = "get_job"
    /\ LET stored == GetJob(runs[r].job_id)
           job == IF runs[r].via = "sched" /\ stored.exists
                     /\ triggers[runs[r].job_id].exists
                  THEN [stored EXCEPT !.job_name = triggers[runs[r].job_id].name]
                  ELSE stored
           message == PreFlightError(job)
       IN runs' = [runs EXCEPT ![r] =
            IF message # NULL
            THEN Finished(@, [status |-> "error", message |-> message])
            ELSE [@ EXCEPT !.pc = "begin", !.job = job]]
    /\ UNCHANGED <<jobs, next_job_id, job_history, job_logs, sink_store,
                   triggers, paused, faults, clock_adjusts, conn, calls>>

\* 253-258
PreFlight(r) ==
    /\ runs[r].pc = "get_job"
    /\ LET job == GetJob(runs[r].job_id)
           message == PreFlightError(job)
       IN runs' = [runs EXCEPT ![r] =
            IF message # NULL
            THEN Finished(@, [status |-> "error", message |-> message])
            ELSE [@ EXCEPT !.pc = "begin", !.job = job]]
    /\ UNCHANGED <<jobs, next_job_id, job_history, job_logs, sink_store,
                   triggers, paused, faults, clock_adjusts, conn, calls>>

\* 260-271: the history row is inserted before the try block.
BeginRun(r) ==
    /\ runs[r].pc = "begin"
    /\ \E db_ok \in DbOk, started_at \in StartTimes :
         IF db_ok
         THEN /\ job_history' = Append(job_history,
                     HistoryRow(runs[r].job_id, runs[r].job.job_name,
                                started_at))
              /\ job_logs' = Append(job_logs, <<>>)
              /\ runs' = [runs EXCEPT ![r].pc = "log_start",
                                      ![r].history_id = Len(job_history) + 1]
         ELSE /\ job_history' = job_history
              /\ job_logs' = job_logs
              /\ runs' = [runs EXCEPT ![r] =
                            Finished(@, [status |-> "raised", error |-> DbError])]
    /\ UNCHANGED <<jobs, next_job_id, sink_store, triggers, paused, faults,
                   clock_adjusts, conn, calls>>

\* 282
LogStart(r) ==
    /\ runs[r].pc = "log_start"
    /\ LogMessage(r, runs[r], "INFO", "Starting job", NULL, "create_source")
    /\ UNCHANGED <<jobs, next_job_id, job_history, sink_store, triggers,
                   paused, faults, clock_adjusts, conn, calls>>

\* 284-286
CreateSource(r) ==
    /\ runs[r].pc = "create_source"
    /\ LET o == CreateSourceConnector(runs[r].job.source_type,
                                      runs[r].job.source_config)
       IN IF o.raised # NULL
          THEN /\ runs' = [runs EXCEPT ![r] = Raised(@, o.raised)]
               /\ job_logs' = job_logs
          ELSE LogMessage(r, [runs[r] EXCEPT !.source = o.c], "INFO",
                          "Created source connector", NULL, "create_sink")
    /\ UNCHANGED <<jobs, next_job_id, job_history, sink_store, triggers,
                   paused, faults, clock_adjusts, conn, calls>>

\* 288-290
CreateSink(r) ==
    /\ runs[r].pc = "create_sink"
    /\ LET o == CreateSinkConnector(runs[r].job.sink_type,
                                    runs[r].job.sink_config)
       IN IF o.raised # NULL
          THEN /\ runs' = [runs EXCEPT ![r] = Raised(@, o.raised)]
               /\ job_logs' = job_logs
          ELSE LogMessage(r, [runs[r] EXCEPT !.sink = o.c], "INFO",
                          "Created sink connector", NULL, "data_factory")
    /\ UNCHANGED <<jobs, next_job_id, job_history, sink_store, triggers,
                   paused, faults, clock_adjusts, conn, calls>>

\* 296: query = job.get('query') or 'SELECT * FROM source'.  A query that
\* is None or the empty string is replaced by the default.
DefaultQuery == "SELECT * FROM source"

QueryOf(job) == IF job.query \in {NULL, ""} THEN DefaultQuery ELSE job.query

\* 292-297 and DataFactory.__init__ (src/datafactory_cli.py 14-27): the
\* source is connected, then the sink; then the query is set and logged.
NewDataFactory(r) ==
    /\ runs[r].pc = "data_factory"
    /\ \E so \in Env(SourceConnect(runs[r].source)) :
         IF so.raised # NULL
         THEN /\ runs' = [runs EXCEPT ![r] =
                            Raised([@ EXCEPT !.source = so.c], so.raised)]
              /\ job_logs' = job_logs
         ELSE \E si \in Env(SinkConnect(runs[r].sink)) :
                IF si.raised # NULL
                THEN /\ runs' = [runs EXCEPT ![r] =
                            Raised([@ EXCEPT !.source = so.c, !.sink = si.c],
                                   si.raised)]
                     /\ job_logs' = job_logs
                ELSE LogMessage(r, [runs[r] EXCEPT !.source = so.c,
                                                   !.sink = si.c,
                                                   !.query = QueryOf(runs[r].job)],
                                "INFO", "Executing query",
                                QueryOf(runs[r].job), "get_data")
    /\ UNCHANGED <<jobs, next_job_id, job_history, sink_store, triggers,
                   paused, faults, clock_adjusts, conn, calls>>

ExtractFailed == "extract failed"

\* source.get_data(query): the file sources return the frame read by
\* connect() and do not use the query; pd.read_sql(query, connection) of
\* the database sources returns what the query selects, or fails.
SourceGetData(c, query) ==
    { [df |-> df, raised |-> NULL] : df \in Frames }
    \cup IF c.type \in {"odbc", "postgresql", "mysql"}
         THEN { [df |-> <<>>, raised |-> ExtractFailed] }
         ELSE {}

\* 299-302
GetData(r) ==
    /\ runs[r].pc = "get_data"
    /\ \E o \in Env(SourceGetData(runs[r].source, runs[r].query)) :
         IF o.raised # NULL
         THEN /\ runs' = [runs EXCEPT ![r] = Raised(@, o.raised)]
              /\ job_logs' = job_logs
         ELSE LogMessage(r, [runs[r] EXCEPT !.df = o.df,
                                            !.records_processed = Len(o.df)],
                         "INFO", "Retrieved records", NULL, "write_data")
    /\ UNCHANGED <<jobs, next_job_id, job_history, sink_store, triggers,
                   paused, faults, clock_adjusts, conn, calls>>

\* 304-307
WriteData(r) ==
    /\ runs[r].pc = "write_data"
    /\ LET table_name == TableName(runs[r].job.job_name)
       IN \E w \in Env(SinkWrite(runs[r].sink, sink_store, table_name,
                                  runs[r].df)) :
            /\ sink_store' = w.store
            /\ IF w.raised # NULL
               THEN /\ runs' = [runs EXCEPT ![r] = Raised(@, w.raised)]
                    /\ job_logs' = job_logs
               ELSE LogMessage(r, [runs[r] EXCEPT !.table_name = table_name],
                               "INFO", "Data written to sink", NULL, "close")
    /\ UNCHANGED <<jobs, next_job_id, job_history, triggers, paused, faults,
                   clock_adjusts, conn, calls>>

\* 309-311 and DataFactory.close_connections (src/datafactory_cli.py
\* 41-44): the source is closed, then the sink.
CloseConnections(r) ==
    /\ runs[r].pc = "close"
    /\ \E so \in Env(SourceClose(runs[r].source)) :
         LET run1 == [runs[r] EXCEPT !.source = so.c,
                                     !.close_called = @ \cup {"source"}]
         IN IF so.raised # NULL
            THEN /\ runs' = [runs EXCEPT ![r] = Raised(run1, so.raised)]
                 /\ job_logs' = job_logs
            ELSE \E si \in Env(SinkClose(runs[r].sink)) :
                   LET run2 == [run1 EXCEPT !.sink = si.c,
                                            !.close_called = @ \cup {"sink"}]
                   IN IF si.raised # NULL
                      THEN /\ runs' = [runs EXCEPT ![r] =
                                         Raised(run2, si.raised)]
                           /\ job_logs' = job_logs
                      ELSE LogMessage(r, run2, "INFO",
                                      "Job completed successfully", NULL,
                                      "update_success")
    /\ UNCHANGED <<jobs, next_job_id, job_history, sink_store, triggers,
                   paused, faults, clock_adjusts, conn, calls>>

\* A variant of SuccessRow whose UPDATE leaves the status as it was.
SuccessRowStillRunning(row, records_processed) ==
    [row EXCEPT !.completed_at = "set",
                !.records_processed = records_processed]

\* A variant of SuccessRow that counts no records.
SuccessRowZero(row, records_processed) ==
    [row EXCEPT !.completed_at = "set", !.status = "success",
                !.records_processed = 0]

\* The UPDATE of the success path (313-320).
SuccessRow(row, records_processed) ==
    [row EXCEPT !.completed_at = "set", !.status = "success",
                !.records_processed = records_processed]

\* A variant of FailedRow whose UPDATE does not set completed_at.
FailedRowNotCompleted(row, error_message) ==
    [row EXCEPT !.status = "failed", !.error_message = error_message]

\* A variant of FailedRow whose UPDATE also sets records_processed.
FailedRowCounted(row, error_message) ==
    [row EXCEPT !.completed_at = "set", !.status = "failed",
                !.error_message = error_message, !.records_processed = 0]

\* The UPDATE of the except block (334-341).
FailedRow(row, error_message) ==
    [row EXCEPT !.completed_at = "set", !.status = "failed",
                !.error_message = error_message]

\* 313-328, 351-352
UpdateSuccess(r) ==
    /\ runs[r].pc = "update_success"
    /\ \E db_ok \in DbOk :
         IF db_ok
         THEN /\ job_history' = [job_history EXCEPT ![runs[r].history_id] =
                                   SuccessRow(@, runs[r].records_processed)]
              /\ runs' = [runs EXCEPT ![r] =
                   Finished(@, [status |-> "success",
                                history_id |-> runs[r].history_id,
                                records_processed |-> runs[r].records_processed])]
         ELSE /\ job_history' = job_history
              /\ runs' = [runs EXCEPT ![r] = Raised(@, DbError)]
    /\ UNCHANGED <<jobs, next_job_id, job_logs, sink_store, triggers, paused,
                   faults, clock_adjusts, conn, calls>>

\* A variant of ExceptLog whose except block logs nothing.
ExceptLogSilent(r) ==
    /\ runs[r].pc = "except"
    /\ job_logs' = job_logs
    /\ runs' = [runs EXCEPT ![r].pc = "update_failed"]
    /\ UNCHANGED <<jobs, next_job_id, job_history, sink_store, triggers,
                   paused, faults, clock_adjusts, conn, calls>>

\* 330-332: the except block logs the error; an exception raised here
\* leaves execute_job through the finally block.
ExceptLog(r) ==
    /\ runs[r].pc = "except"
    /\ \E db_ok \in DbOk, timestamp \in Timestamps(runs[r].history_id) :
         IF db_ok
         THEN /\ job_logs' = LogInsert(job_logs,
                    LogRow(runs[r].history_id, runs[r].job_id,
                           timestamp, "ERROR", "Job failed",
                           runs[r].error_message))
              /\ runs' = [runs EXCEPT ![r].pc = "update_failed"]
         ELSE /\ job_logs' = job_logs
              /\ runs' = [runs EXCEPT ![r] =
                            Finished(@, [status |-> "raised", error |-> DbError])]
    /\ UNCHANGED <<jobs, next_job_id, job_history, sink_store, triggers,
                   paused, faults, clock_adjusts, conn, calls>>

\* A variant of UpdateFailed that disables the job whose run failed.
UpdateFailedDisablesJob(r) ==
    /\ runs[r].pc = "update_failed"
    /\ job_history' = [job_history EXCEPT ![runs[r].history_id] =
                          FailedRow(@, runs[r].error_message)]
    /\ runs' = [runs EXCEPT ![r] =
                  Finished(@, [status |-> "failed",
                               history_id |-> runs[r].history_id,
                               error |-> runs[r].error_message])]
    /\ jobs' = [jobs EXCEPT ![runs[r].job_id].enabled = 0]
    /\ UNCHANGED <<next_job_id, job_logs, sink_store, triggers, paused,
                   faults, clock_adjusts, conn, calls>>

\* 334-349, 351-352
UpdateFailed(r) ==
    /\ runs[r].pc = "update_failed"
    /\ \E db_ok \in DbOk :
         IF db_ok
         THEN /\ job_history' = [job_history EXCEPT ![runs[r].history_id] =
                                   FailedRow(@, runs[r].error_message)]
              /\ runs' = [runs EXCEPT ![r] =
                   Finished(@, [status |-> "failed",
                                history_id |-> runs[r].history_id,
                                error |-> runs[r].error_message])]
         ELSE /\ job_history' = job_history
              /\ runs' = [runs EXCEPT ![r] =
                            Finished(@, [status |-> "raised", error |-> DbError])]
    /\ UNCHANGED <<jobs, next_job_id, job_logs, sink_store, triggers, paused,
                   faults, clock_adjusts, conn, calls>>

Step(r) ==
    \/ PreFlight(r)
    \/ BeginRun(r)
    \/ LogStart(r)
    \/ CreateSource(r)
    \/ CreateSink(r)
    \/ NewDataFactory(r)
    \/ GetData(r)
    \/ WriteData(r)
    \/ CloseConnections(r)
    \/ UpdateSuccess(r)
    \/ ExceptLog(r)
    \/ UpdateFailed(r)

(***************************************************************************)
(* A connector driven directly: constructed, then connect() and close()    *)
(* called in any order.                                                    *)
(***************************************************************************)
Called(op, raised) == [op |-> op, raised |-> raised]

ConnConnect ==
    /\ Len(calls) < MaxCalls
    /\ \E o \in Env(Connect(conn)) :
         /\ conn' = o.c
         /\ calls' = Append(calls, Called("connect", o.raised))
    /\ UNCHANGED <<jobs, next_job_id, job_history, job_logs, sink_store,
                   triggers, paused, runs, faults, clock_adjusts>>

ConnClose ==
    /\ Len(calls) < MaxCalls
    /\ \E o \in Env(Close(conn)) :
         /\ conn' = o.c
         /\ calls' = Append(calls, Called("close", o.raised))
    /\ UNCHANGED <<jobs, next_job_id, job_history, job_logs, sink_store,
                   triggers, paused, runs, faults, clock_adjusts>>

(***************************************************************************)
(* The specifications.                                                     *)
(***************************************************************************)
SinkKeys == SinkTypes \X TableNames

InitStores ==
    /\ jobs = [j \in JobIds |-> NoRow]
    /\ next_job_id = 1
    /\ job_history = <<>>
    /\ job_logs = <<>>
    /\ sink_store = [k \in SinkKeys |-> NoTable]
    /\ triggers = [j \in JobIds |-> NoTrigger]
    /\ paused = FALSE
    /\ runs = [r \in RunIds |-> IdleRun]

Init ==
    /\ InitStores
    /\ faults = FALSE
    /\ clock_adjusts = FALSE
    /\ conn = NoConnector
    /\ calls = <<>>

SourceConfigFor(type) == IF type \in SourceTypes THEN SourceRequired(type) ELSE {}
SinkConfigFor(type) == IF type \in SinkTypes THEN SinkRequired(type) ELSE {}

\* A request to create a job: each type with the configuration keys it
\* requires, no query.
CreateRequest(job_name, source_type, sink_type, schedule) ==
    ApiCreateJob(job_name, source_type, SourceConfigFor(source_type),
                 sink_type, SinkConfigFor(sink_type), NULL, schedule)

\* Jobs executed by request and by trigger while requests create, rename,
\* disable, enable and delete them, in an environment that fails no call:
\* scheduled jobs from a database to SQLite, and unscheduled jobs whose
\* source type the registry does not know.
NameInputs == { <<"J", " ", "1">>, <<"j", "2">> }

UpdateInputs ==
    { [job_name |-> n] : n \in NameInputs }
    \cup { [enabled |-> b] : b \in BOOLEAN }

Next ==
    \/ \E n \in NameInputs :
         \/ CreateRequest(n, "postgresql", "sqlite", GoodCron)
         \/ CreateRequest(n, "ftp", "sqlite", NULL)
    \/ \E j \in JobIds, u \in UpdateInputs : ApiUpdateJob(j, u)
    \/ \E j \in JobIds : ApiDeleteJob(j)
    \/ \E r \in RunIds, j \in JobIds : ApiExecuteJob(r, j)
    \/ \E r \in RunIds, j \in JobIds : Fire(r, j)
    \/ \E r \in RunIds : Step(r)

Spec == Init /\ [][Next]_vars

\* The job store and the scheduler alone, under every job management
\* request: any name, a schedule that is absent, empty, valid or malformed,
\* and requests whose name or whose source type is the empty string.
ScheduleInputs == {NULL, "", GoodCron, BadCron}

StoreUpdateInputs ==
    { [job_name |-> n] : n \in Names }
    \cup { [enabled |-> b] : b \in BOOLEAN }
    \cup { [schedule |-> s] : s \in ScheduleInputs \ {NULL} }
    \cup { [job_name |-> n, schedule |-> GoodCron] : n \in Names }

NextStore ==
    \/ \E n \in Names, s \in ScheduleInputs :
         CreateRequest(n, "postgresql", "sqlite", s)
    \/ CreateRequest(<<>>, "postgresql", "sqlite", NULL)
    \/ CreateRequest(<<"j", "2">>, "", "", GoodCron)
    \/ \E j \in JobIds, u \in StoreUpdateInputs : ApiUpdateJob(j, u)
    \/ \E j \in JobIds : ApiDeleteJob(j)
    \/ ApiPauseScheduler
    \/ ApiResumeScheduler

SpecStore == Init /\ [][NextStore]_vars

\* The pipeline in an environment that fails calls: a scheduled job from a
\* database to SQLite, a job whose source type and a job whose sink type
\* the registry does not know, executed by request and by trigger.
InitRun ==
    /\ InitStores
    /\ faults = TRUE
    /\ clock_adjusts = FALSE
    /\ conn = NoConnector
    /\ calls = <<>>

NextRun ==
    \/ CreateRequest(<<"j", "2">>, "postgresql", "sqlite", GoodCron)
    \/ CreateRequest(<<"J", " ", "1">>, "ftp", "sqlite", NULL)
    \/ CreateRequest(<<"j", "_", "1">>, "postgresql", "xml", NULL)
    \/ \E r \in RunIds, j \in JobIds : ApiExecuteJob(r, j)
    \/ \E r \in RunIds, j \in JobIds : Fire(r, j)
    \/ \E r \in RunIds : Step(r)

SpecRun == InitRun /\ [][NextRun]_vars

\* Every connector type, constructed and then driven directly.
InitConn ==
    /\ InitStores
    /\ faults = TRUE
    /\ clock_adjusts = FALSE
    /\ conn \in { NewSource(t) : t \in SourceTypes }
                \cup { NewSink(t) : t \in SinkTypes }
    /\ calls = <<>>

NextConn == ConnConnect \/ ConnClose

SpecConn == InitConn /\ [][NextConn]_vars

\* The scheduler paused and resumed while triggers fire and requests
\* execute jobs: a scheduled job from a file to a file, and a scheduled job
\* whose source type the registry does not know.
NextSched ==
    \/ CreateRequest(<<"j", "2">>, "csv", "csv", GoodCron)
    \/ CreateRequest(<<"J", " ", "1">>, "ftp", "sqlite", GoodCron)
    \/ ApiPauseScheduler
    \/ ApiResumeScheduler
    \/ \E r \in RunIds, j \in JobIds : ApiExecuteJob(r, j)
    \/ \E r \in RunIds, j \in JobIds : Fire(r, j)
    \/ \E r \in RunIds : Step(r)

SpecSched == Init /\ [][NextSched]_vars

\* Jobs whose configurations the connectors accept, lack a required key
\* of, or do not know a key of, and jobs of unknown types, executed by
\* request in an environment that fails no call.
JobConfig(source_type, source_config, sink_type, sink_config) ==
    [source_type |-> source_type, source_config |-> source_config,
     sink_type |-> sink_type, sink_config |-> sink_config]

ConfigInputs ==
    { JobConfig("csv", {"file_path"}, "csv", {"directory"}),
      JobConfig("odbc", {"dsn"}, "sqlite", {"database_path"}),
      JobConfig("odbc", {"dsn", "encoding"}, "sqlite", {"database_path"}),
      JobConfig("csv", {"file_path"}, "postgresql", DbKeys \ {"password"}),
      JobConfig("csv", {"file_path", "encoding"}, "csv", {"directory"}),
      JobConfig("excel", {"file_path", "sheet_name"}, "parquet",
                {"directory", "compression"}),
      JobConfig("ftp", {"host"}, "csv", {"directory"}),
      JobConfig("csv", {"file_path"}, "xml", {"directory"}) }

NextConfig ==
    \/ \E n \in NameInputs, c \in ConfigInputs :
         ApiCreateJob(n, c.source_type, c.source_config,
                      c.sink_type, c.sink_config, NULL, NULL)
    \/ \E r \in RunIds, j \in JobIds : ApiExecuteJob(r, j)
    \/ \E r \in RunIds : Step(r)

SpecConfig == Init /\ [][NextConfig]_vars

\* Runs that start and log while the clock is adjusted: a job whose
\* source type and a job whose sink type the registry does not know,
\* executed by request and by trigger.  Their runs fail in the
\* construction of the connectors, so these are the steps they take.
InitLogs ==
    /\ InitStores
    /\ faults = FALSE
    /\ clock_adjusts = TRUE
    /\ conn = NoConnector
    /\ calls = <<>>

NextLogs ==
    \/ CreateRequest(<<"j", "2">>, "ftp", "csv", GoodCron)
    \/ CreateRequest(<<"J", " ", "1">>, "csv", "xml", NULL)
    \/ \E r \in RunIds, j \in JobIds : ApiExecuteJob(r, j)
    \/ \E r \in RunIds, j \in JobIds : Fire(r, j)
    \/ \E r \in RunIds :
         \/ PreFlight(r)
         \/ BeginRun(r)
         \/ LogStart(r)
         \/ CreateSource(r)
         \/ CreateSink(r)
         \/ ExceptLog(r)
         \/ UpdateFailed(r)

SpecLogs == InitLogs /\ [][NextLogs]_vars

\* Scheduled jobs from a file to a file, executed by request and by
\* trigger while requests rename and delete them, in an environment that
\* fails no call.  Their runs succeed, so these are the steps they take.
NextHist ==
    \/ \E n \in NameInputs : CreateRequest(n, "csv", "csv", GoodCron)
    \/ \E j \in JobIds, n \in NameInputs : ApiUpdateJob(j, [job_name |-> n])
    \/ \E j \in JobIds : ApiDeleteJob(j)
    \/ \E r \in RunIds, j \in JobIds : ApiExecuteJob(r, j)
    \/ \E r \in RunIds, j \in JobIds : Fire(r, j)
    \/ \E r \in RunIds :
         \/ PreFlight(r)
         \/ BeginRun(r)
         \/ LogStart(r)
         \/ CreateSource(r)
         \/ CreateSink(r)
         \/ NewDataFactory(r)
         \/ GetData(r)
         \/ WriteData(r)
         \/ CloseConnections(r)
         \/ UpdateSuccess(r)

SpecHist == Init /\ [][NextHist]_vars

\* Requests that create jobs of every kind of definition (configurations
\* with no, one and several keys, with and without a query and a schedule)
\* and delete them.
QueryInputs == {NULL, "SELECT * FROM orders"}

CreateInputs ==
    { [job_name |-> n, config |-> c, query |-> q, schedule |-> s] :
        n \in NameInputs,
        c \in ConfigInputs \cup {JobConfig("csv", {}, "csv", {})},
        q \in QueryInputs, s \in {NULL, GoodCron} }

CreateWith(i) ==
    ApiCreateJob(i.job_name, i.config.source_type, i.config.source_config,
                 i.config.sink_type, i.config.sink_config, i.query, i.schedule)

NextCreate ==
    \/ \E i \in CreateInputs : CreateWith(i)
    \/ \E j \in JobIds : ApiDeleteJob(j)

SpecCreate == Init /\ [][NextCreate]_vars

\* The pipeline in an environment that fails calls, with the progress the
\* threads make: execute_job runs in a thread of the scheduler's pool or
\* in the request handler, and a thread that can take its next step takes
\* it, every connector call returning or raising.
NextTerm ==
    \/ CreateRequest(<<"j", "2">>, "postgresql", "sqlite", GoodCron)
    \/ \E r \in RunIds, j \in JobIds : ApiExecuteJob(r, j)
    \/ \E r \in RunIds, j \in JobIds : Fire(r, j)
    \/ \E r \in RunIds : Step(r)

SpecTerm ==
    InitRun /\ [][NextTerm]_vars /\ \A r \in RunIds : WF_vars(Step(r))

\* A scheduled job from a file to a file whose trigger fires while
\* requests change its name, its source, its sink, its query and its
\* enabled flag and leave its schedule alone, in an environment that fails
\* no call.  The runs succeed, so these are the steps they take.
FireUpdateInputs ==
    { [job_name |-> <<"J", " ", "1">>,
       source_type |-> "json", source_config |-> {"file_path"},
       sink_type |-> "json", sink_config |-> {"directory"},
       query |-> "SELECT * FROM orders"],
      [query |-> ""],
      [enabled |-> FALSE] }

NextFire ==
    \/ CreateRequest(<<"j", "2">>, "csv", "csv", GoodCron)
    \/ \E j \in JobIds, u \in FireUpdateInputs : ApiUpdateJob(j, u)
    \/ \E r \in RunIds, j \in JobIds : Fire(r, j)
    \/ \E r \in RunIds :
         \/ PreFlight(r)
         \/ BeginRun(r)
         \/ LogStart(r)
         \/ CreateSource(r)
         \/ CreateSink(r)
         \/ NewDataFactory(r)
         \/ GetData(r)
         \/ WriteData(r)
         \/ CloseConnections(r)
         \/ UpdateSuccess(r)

SpecFire == Init /\ [][NextFire]_vars

\* Two jobs from a file to files of one directory, executed by request in
\* an environment that fails no call.  Their runs succeed, so these are
\* the steps they take.
NextShare ==
    \/ CreateRequest(<<"J", " ", "1">>, "csv", "csv", NULL)
    \/ CreateRequest(<<"j", "_", "1">>, "csv", "csv", NULL)
    \/ \E r \in RunIds, j \in JobIds : ApiExecuteJob(r, j)
    \/ \E r \in RunIds :
         \/ PreFlight(r)
         \/ BeginRun(r)
         \/ LogStart(r)
         \/ CreateSource(r)
         \/ CreateSink(r)
         \/ NewDataFactory(r)
         \/ GetData(r)
         \/ WriteData(r)
         \/ CloseConnections(r)
         \/ UpdateSuccess(r)

SpecShare == Init /\ [][NextShare]_vars

\* The job store and the scheduler under job management requests, with
\* restarts of the process in between.
NextRestart ==
    \/ \E n \in NameInputs, s \in ScheduleInputs :
         CreateRequest(n, "postgresql", "sqlite", s)
    \/ \E j \in JobIds, s \in ScheduleInputs \ {NULL} :
         ApiUpdateJob(j, [schedule |-> s])
    \/ \E j \in JobIds : ApiDeleteJob(j)
    \/ ApiPauseScheduler
    \/ ApiResumeScheduler
    \/ Restart

SpecRestart == Init /\ [][NextRestart]_vars

(***************************************************************************)
(* The claims.                                                             *)
(***************************************************************************)
Returned(r) ==
    /\ runs[r].pc = "done"
    /\ runs[r].result.status \in {"success", "failed"}

RowOf(r) == job_history[runs[r].history_id]

C2_FailureCaptured ==
    \A r \in RunIds :
        (runs[r].pc = "done" /\ runs[r].history_id # 0) =>
            /\ runs[r].result.status # "raised"
            /\ runs[r].error_message # NULL =>
                   /\ runs[r].result.status = "failed"
                   /\ RowOf(r).status = "failed"
                   /\ RowOf(r).error_message = runs[r].error_message

Built(r) ==
    { c \in {"source", "sink"} :
        IF c = "source" THEN runs[r].source.kind = "source"
        ELSE runs[r].sink.kind = "sink" }

\* C6 (cleanup on failure).  A run that fails after its source, and maybe
\* its sink, was constructed has called close() on every connector it
\* constructed by the time execute_job returns.
C6_CleanupOnFailure ==
    \A r \in RunIds :
        (runs[r].pc = "done" /\ runs[r].result.status = "failed") =>
            Built(r) \subseteq runs[r].close_called

\* C7.  A close() that raises after extract and load succeeded is not
\* fatal: the run returns success and its history row is success with the
\* number of records.
C7_CloseNotFatal ==
    \A r \in RunIds :
        (runs[r].pc = "done" /\ runs[r].table_name # <<>>
            /\ runs[r].error_message \in {"source close failed", NoneDispose}) =>
            /\ runs[r].result.status = "success"
            /\ RowOf(r).status = "success"
            /\ RowOf(r).records_processed # NullInt

\* C8 (close is safe and idempotent).  On every connector, a close() that
\* no completed connect() preceded returns without raising, and so does a
\* close() after an earlier close().
C8_CloseSafe ==
    \A i \in 1..Len(calls) :
        (/\ calls[i].op = "close"
         /\ \/ \A k \in 1..(i - 1) :
                 ~(calls[k].op = "connect" /\ calls[k].raised = NULL)
            \/ \E k \in 1..(i - 1) :
                 calls[k].op = "close" /\ calls[k].raised = NULL)
        => calls[i].raised = NULL

\* C9 (overwrite).  A load leaves in the sink's target exactly the rows
\* of the run that loads, whatever the target held: the second of two runs
\* of a job replaces what the first wrote.
C9_Overwrite ==
    [][\A r \in RunIds :
          (runs[r].pc = "write_data" /\ runs'[r].pc = "close") =>
              sink_store'[<<runs[r].sink.type, runs'[r].table_name>>]
                  = Table(runs[r].df)]_vars

\* C9: a run has just loaded no rows into the target into which an
\* earlier, successful run of the same job had loaded a row, and the
\* target holds no rows.
C9_Witness ==
    \E r, q \in RunIds :
        /\ runs[r].pc = "close" /\ runs[r].df = <<>>
        /\ Returned(q) /\ runs[q].result.status = "success"
        /\ runs[q].result.records_processed = 1
        /\ runs[q].job_id = runs[r].job_id
        /\ runs[q].table_name = runs[r].table_name
        /\ runs[q].history_id < runs[r].history_id
        /\ sink_store[<<runs[r].sink.type, runs[r].table_name>>] = Table(<<>>)

Rejected(r, message) ==
    /\ runs'[r].pc = "done"
    /\ runs'[r].result = [status |-> "error", message |-> message]
    /\ runs'[r].history_id = 0
    /\ job_history' = job_history
    /\ job_logs' = job_logs
    /\ sink_store' = sink_store

\* C3 (disabled jobs).  execute_job on a job that exists and is disabled,
\* whether the API or the scheduler asked for it, returns the error
\* 'Job is disabled', which is not a run result, and inserts no history
\* row, writes no log line and loads nothing.
C3_DisabledRejected ==
    [][\A r \in RunIds :
          (/\ runs[r].pc = "get_job" /\ runs'[r].pc # "get_job"
           /\ GetJob(runs[r].job_id).exists
           /\ ~GetJob(runs[r].job_id).enabled)
          => Rejected(r, "Job is disabled")]_vars

\* C3: a run asked for through the API and a run fired by the scheduler
\* were both rejected because the job is disabled.
C3_Witness ==
    \E r, q \in RunIds :
        /\ runs[r].via = "api" /\ runs[q].via = "sched"
        /\ \A x \in {r, q} :
             /\ runs[x].pc = "done"
             /\ runs[x].result = [status |-> "error",
                                  message |-> "Job is disabled"]

\* C4 (jobs that do not exist).  Asking for a run of a job_id that was
\* never created or that was deleted is rejected: the API answers 404,
\* execute_job returns the error 'Job not found', and in both cases no
\* history row is inserted, no log line written and nothing loaded.
C4_NotFoundRejected ==
    [][\A r \in RunIds :
          /\ (/\ runs[r].pc = "idle" /\ runs'[r].via = "api"
              /\ ~GetJob(runs'[r].job_id).exists)
             => /\ runs'[r].pc = "done"
                /\ runs'[r].response = [code |-> 404]
                /\ runs'[r].history_id = 0
                /\ job_history' = job_history
                /\ job_logs' = job_logs
                /\ sink_store' = sink_store
          /\ (/\ runs[r].pc = "get_job" /\ runs'[r].pc # "get_job"
              /\ ~GetJob(runs[r].job_id).exists)
             => Rejected(r, "Job not found")]_vars

\* C4: the API has answered 404 for a job_id that was never created, and
\* a run that the scheduler fired before the job was deleted has returned
\* 'Job not found'.
C4_Witness ==
    \E r, q \in RunIds :
        /\ runs[r].via = "api" /\ runs[r].pc = "done"
        /\ runs[r].response = [code |-> 404]
        /\ runs[r].job_id >= next_job_id
        /\ runs[q].via = "sched" /\ runs[q].pc = "done"
        /\ runs[q].result = [status |-> "error", message |-> "Job not found"]
        /\ runs[q].job_id < next_job_id

\* C5 (unique job names).  No two stored jobs have the same job_name,
\* whatever creates, updates and deletes were made.
C5_NameUnique ==
    \A i, j \in Stored : i # j => jobs[i].job_name # jobs[j].job_name

\* C5: two jobs are stored, and one of them was renamed after it was
\* scheduled (its trigger still carries the old name).
C5_Witness ==
    /\ Cardinality(Stored) = 2
    /\ \E j \in Stored :
         /\ triggers[j].exists
         /\ triggers[j].name # jobs[j].job_name

\* The target names of the job names of this model, written out.
ExpectedTable(job_name) ==
    CASE job_name = <<"J", " ", "1">> -> <<"j", "_", "1">>
      [] job_name = <<"j", "_", "1">> -> <<"j", "_", "1">>
      [] job_name = <<"j", "2">> -> <<"j", "2">>
      [] OTHER -> <<>>

Loaded(r) == runs[r].history_id # 0 /\ runs[r].table_name # <<>>

\* C10 as amended.  The target of a run is the job name the run read at
\* its start, the name in its history row, in lower case and with '_' for
\* each space; two runs of a job that read the same name write to the
\* same target.
C10_TargetFromName ==
    \A r \in RunIds :
        Loaded(r) =>
            /\ runs[r].table_name = ExpectedTable(RowOf(r).job_name)
            /\ \A q \in RunIds :
                 (/\ Loaded(q) /\ runs[q].job_id = runs[r].job_id
                  /\ RowOf(q).job_name = RowOf(r).job_name)
                 => runs[q].table_name = runs[r].table_name

\* C10: two runs of one job, whose name has a capital and a space, have
\* both loaded, into the same target.
C10_Witness ==
    \E r, q \in RunIds :
        /\ r # q /\ Loaded(r) /\ Loaded(q)
        /\ runs[q].job_id = runs[r].job_id
        /\ RowOf(r).job_name = <<"J", " ", "1">>
        /\ RowOf(q).job_name = <<"J", " ", "1">>
        /\ runs[r].table_name = <<"j", "_", "1">>

\* C10 as stated: all runs of one job_id write to the same target name.
C10_SameTargetEveryRun ==
    \A r, q \in RunIds :
        (Loaded(r) /\ Loaded(q) /\ runs[q].job_id = runs[r].job_id)
        => runs[q].table_name = runs[r].table_name

RunsOf(j) == { q \in RunIds : Active(q) /\ runs[q].job_id = j }

\* C11 (overlap).  While a run of an enabled job is in progress, a request
\* to execute the job and a firing of its trigger each start a second run
\* of the job at once: neither is skipped or made to wait.
C11_SecondRunStarts ==
    \A j \in Stored, r \in RunIds :
        (Starts(r) /\ GetJob(j).enabled /\ RunsOf(j) # {}) =>
            /\ ENABLED ApiExecuteJob(r, j)
            /\ (triggers[j].exists /\ ~paused) => ENABLED Fire(r, j)

IsPrefix(s, t) == Len(s) <= Len(t) /\ SubSeq(t, 1, Len(s)) = s

C13_HistoryFields ==
    \A h \in 1..Len(job_history) :
        /\ job_history[h].status \in {"running", "success", "failed"}
        /\ job_history[h].completed_at = NULL
               <=> job_history[h].status = "running"
        /\ job_history[h].error_message # NULL
               <=> job_history[h].status = "failed"

\* C13: a row is failed with its error message, and another row is still
\* running after its invocation ended by raising.
C13_Witness ==
    \E h, k \in 1..Len(job_history) :
        /\ job_history[h].status = "failed"
        /\ job_history[h].error_message = ExtractFailed
        /\ job_history[k].status = "running"
        /\ \E r \in RunIds : /\ runs[r].history_id = k
                             /\ runs[r].pc = "done"
                             /\ runs[r].result.status = "raised"

\* C14 (schedule persistence and activation).  A create or an update
\* request with a malformed cron expression stores the job with that
\* expression and is answered as a success (201, 200), and the scheduler
\* then has no trigger for the job, the one it had before an update
\* included.
C14_ScheduleDecoupled ==
    [][/\ \A n \in Names, s \in ScheduleInputs :
            (/\ CreateRequest(n, "postgresql", "sqlite", s)
             /\ SchedulingFailed(s) /\ ~NameTaken(n, {}))
            => /\ jobs'[next_job_id].exists
               /\ jobs'[next_job_id].job_name = n
               /\ jobs'[next_job_id].schedule = s
               /\ ~triggers'[next_job_id].exists
               /\ CreateJobResponse(n, "postgresql", SourceConfigFor("postgresql"),
                                    "sqlite", SinkConfigFor("sqlite"),
                                    NULL, s).code = 201
       /\ \A j \in Stored, u \in StoreUpdateInputs :
            (/\ ApiUpdateJob(j, u) /\ "schedule" \in DOMAIN u
             /\ SchedulingFailed(u.schedule))
            => /\ jobs'[j].exists
               /\ jobs'[j].schedule = u.schedule
               /\ ~triggers'[j].exists
               /\ UpdateJobResponse(j, u).code = 200]_vars

\* C14: one job was created with a malformed expression and another, which
\* had a trigger, was updated to it; both are stored with it and neither
\* has a trigger.
C14_Witness ==
    \E i, j \in Stored :
        /\ jobs[i].schedule = BadCron /\ jobs[i].updated_at = "created"
        /\ jobs[j].schedule = BadCron /\ jobs[j].updated_at = "updated"
        /\ ~triggers[i].exists /\ ~triggers[j].exists

\* C15 (no cascade delete).  After a job is deleted, get_job finds no row
\* for its id (404), and get_job_history for the id and get_job_logs for
\* each of its runs return what they returned before the delete.
C15_NoCascade ==
    [][jobs' # jobs =>
         \A j \in JobIds :
            (jobs[j].exists /\ ~jobs'[j].exists) =>
                /\ DeleteJobResponse(j).code = 200
                /\ GetJobResponse(j)'.code = 404
                /\ GetJobHistory(j)' = GetJobHistory(j)
                /\ \A h \in 1..Len(job_history) :
                     GetJobLogs(h)' = GetJobLogs(h)]_vars

\* C15: a job that has run twice is deleted; get_job_history returns both
\* runs, the newer first, and get_job_logs their log lines.
C15_Witness ==
    \E j \in JobIds :
        /\ j < next_job_id /\ ~GetJob(j).exists
        /\ Len(GetJobHistory(j)) = 2
        /\ GetJobHistory(j)[1].history_id > GetJobHistory(j)[2].history_id
        /\ \A i \in 1..2 : GetJobLogs(GetJobHistory(j)[i].history_id) # <<>>

ScheduledRuns(j) ==
    { q \in RunIds : Active(q) /\ runs[q].via = "sched" /\ runs[q].job_id = j }

\* C16 (pause and resume).  While the scheduler is paused no run is
\* started by a trigger, and a request to execute a job still starts a
\* run; pausing and resuming leave the triggers as they are; and when the
\* scheduler is not paused a trigger whose job is not running can fire.
C16_PauseResume ==
    /\ [][/\ paused =>
               \A r \in RunIds :
                   (runs[r].pc = "idle" /\ runs'[r].pc # "idle")
                   => runs'[r].via = "api"
          /\ paused' # paused => triggers' = triggers]_vars
    /\ [](\A j \in JobIds, r \in RunIds :
             /\ (paused /\ Starts(r) /\ ~ApiBusy)
                => ENABLED ApiExecuteJob(r, j)
             /\ (/\ ~paused /\ Starts(r) /\ triggers[j].exists
                 /\ ScheduledRuns(j) = {})
                => ENABLED Fire(r, j))

\* C16: the scheduler is paused with a trigger registered, and a run that
\* a request started during the pause is in progress.
C16_Witness ==
    /\ paused
    /\ \E r \in RunIds :
         /\ Active(r) /\ runs[r].via = "api" /\ runs[r].history_id # 0
         /\ triggers[runs[r].job_id].exists

\* C17 (one run per due tick).  While the scheduler is not paused, a tick
\* of a job's trigger that comes due starts an invocation of execute_job,
\* also when an earlier run of the job is in progress.
C17_EveryTickRuns ==
    \A j \in JobIds, r \in RunIds :
        (~paused /\ triggers[j].exists /\ Starts(r)) => ENABLED Fire(r, j)

Conflict(j, u) ==
    "job_name" \in DOMAIN u /\ NameTaken(u.job_name, {j})

C19_ConflictIsValidationError ==
    \A j \in Stored, u \in StoreUpdateInputs :
        Conflict(j, u) => UpdateJobResponse(j, u).code \in {400, 409, 422}

\* C20 (create validation).  No stored job has an empty job_name, an
\* empty source_type or an empty sink_type: a create request with one of
\* them empty stores nothing.
C20_NoEmptyRequiredField ==
    \A j \in Stored :
        /\ jobs[j].job_name # <<>>
        /\ jobs[j].source_type # ""
        /\ jobs[j].sink_type # ""

\* The required keys that a job's configurations lack, and the keys in
\* them that its connectors do not take.
Omitted(job) ==
    (IF job.source_type \in SourceTypes
     THEN SourceRequired(job.source_type) \ job.source_config ELSE {})
    \cup (IF job.sink_type \in SinkTypes
          THEN SinkRequired(job.sink_type) \ job.sink_config ELSE {})

Extra(job) ==
    (IF job.source_type \in SourceTypes
     THEN job.source_config \ (SourceRequired(job.source_type)
                                  \cup SourceOptional(job.source_type))
     ELSE {})
    \cup (IF job.sink_type \in SinkTypes
          THEN job.sink_config \ SinkRequired(job.sink_type) ELSE {})

UnknownType(job) ==
    job.source_type \notin SourceTypes \/ job.sink_type \notin SinkTypes

\* The message has the key in it, quoted.
Contains(s, t) ==
    \E i \in 1..(Len(s) - Len(t) + 1) : SubSeq(s, i, i + Len(t) - 1) = t

NamesKey(message, key) == Contains(message, "'" \o key \o "'")

HasErrorLog(h, message) ==
    \E i \in 1..Len(GetJobLogs(h)) :
        /\ GetJobLogs(h)[i].level = "ERROR"
        /\ GetJobLogs(h)[i].detail = message

\* C21 (missing configuration key).  A run of a job whose source or sink
\* configuration lacks a required key returns a result of status failed
\* whose error names a key that is missing (or is the unknown type's
\* message, when the job also has an unknown type), its history row is
\* failed with that error and its log has an ERROR line with it.
C21_MissingKeyNamed ==
    \A r \in RunIds :
        (/\ runs[r].pc = "done" /\ runs[r].history_id # 0
         /\ Omitted(GetJob(runs[r].job_id)) # {})
        => /\ runs[r].result.status = "failed"
           /\ RowOf(r).status = "failed"
           /\ RowOf(r).error_message = runs[r].result.error
           /\ HasErrorLog(runs[r].history_id, runs[r].result.error)
           /\ \/ \E k \in Omitted(GetJob(runs[r].job_id)) :
                    NamesKey(runs[r].result.error, k)
              \/ /\ UnknownType(GetJob(runs[r].job_id))
                 /\ runs[r].result.error \in {UnknownSourceType, UnknownSinkType}

\* C22 (extra configuration keys).  A run of a job whose configurations
\* have every required key, and keys the connectors do not know besides,
\* does not fail in the construction of its connectors: both are built.
C22_ExtraKeysIgnored ==
    \A r \in RunIds :
        (/\ runs[r].pc = "done" /\ runs[r].history_id # 0
         /\ Omitted(GetJob(runs[r].job_id)) = {}
         /\ ~UnknownType(GetJob(runs[r].job_id))
         /\ Extra(GetJob(runs[r].job_id)) # {})
        => /\ Built(r) = {"source", "sink"}
           /\ runs[r].result.status = "success"

C24_AppendOrder ==
    \A h \in 1..Len(job_logs) :
        /\ \A p, q \in 1..Len(GetJobLogs(h)) :
               p < q => GetJobLogs(h)[p].timestamp <= GetJobLogs(h)[q].timestamp
        /\ GetJobLogs(h) = job_logs[h]

\* The messages execute_job has logged when it stands before the step pc
\* of its try block.
Logged(pc) ==
    CASE pc = "log_start" -> <<>>
      [] pc = "create_source" -> <<"Starting job">>
      [] pc = "create_sink" -> <<"Starting job", "Created source connector">>
      [] pc = "data_factory" ->
           <<"Starting job", "Created source connector",
             "Created sink connector">>
      [] pc = "get_data" ->
           <<"Starting job", "Created source connector",
             "Created sink connector", "Executing query">>
      [] pc = "write_data" ->
           <<"Starting job", "Created source connector",
             "Created sink connector", "Executing query", "Retrieved records">>
      [] pc = "close" ->
           <<"Starting job", "Created source connector",
             "Created sink connector", "Executing query", "Retrieved records",
             "Data written to sink">>
      [] pc = "update_success" ->
           <<"Starting job", "Created source connector",
             "Created sink connector", "Executing query", "Retrieved records",
             "Data written to sink", "Job completed successfully">>

Messages(logs) == [i \in 1..Len(logs) |-> logs[i].message]

Last(s) == s[Len(s)]

\* C25 (log visibility).  While a run is in progress and its history row
\* is 'running', get_job_logs for its history_id returns every line the
\* run has logged so far: before each step of the try block the lines of
\* the steps before it, and the ERROR line before the failure UPDATE.
C25_LogsVisibleWhileRunning ==
    \A r \in RunIds :
        (Active(r) /\ runs[r].history_id # 0) =>
            /\ RowOf(r).status = "running"
            /\ runs[r].pc \notin {"except", "update_failed"} =>
                   Messages(GetJobLogs(runs[r].history_id)) = Logged(runs[r].pc)
            /\ runs[r].pc = "except" =>
                   /\ GetJobLogs(runs[r].history_id) # <<>>
                   /\ Last(GetJobLogs(runs[r].history_id)).level = "INFO"
            /\ runs[r].pc = "update_failed" =>
                   /\ Last(GetJobLogs(runs[r].history_id)).level = "ERROR"
                   /\ Last(GetJobLogs(runs[r].history_id)).detail
                          = runs[r].error_message

\* C25: two runs are in progress at once, the history rows of both are
\* 'running', and the five lines one of them has logged before its load
\* are returned.
C25_Witness ==
    \E r, q \in RunIds :
        /\ r # q /\ Active(q) /\ runs[q].history_id # 0
        /\ runs[r].pc = "write_data"
        /\ RowOf(r).status = "running" /\ RowOf(q).status = "running"
        /\ Len(GetJobLogs(runs[r].history_id)) = 5

Records(history) == { history[i] : i \in 1..Len(history) }

\* C26 (job-name snapshot).  The job_name of a history record is the name
\* the run read from the jobs table at its start, and every later step, a
\* rename or the deletion of the job included, leaves it as it is.
C26_NameSnapshot ==
    [][/\ \A r \in RunIds :
            /\ (runs[r].pc = "get_job" /\ runs'[r].pc = "begin") =>
                   runs'[r].job.job_name = GetJob(runs[r].job_id).job_name
            /\ (runs[r].pc = "begin" /\ runs'[r].pc = "log_start") =>
                   LET newest == GetJobHistory(runs[r].job_id)'[1]
                   IN /\ newest.history_id = runs'[r].history_id
                      /\ newest.row.job_name = runs[r].job.job_name
       /\ (jobs' # jobs \/ job_history' # job_history) =>
            \A j \in JobIds :
                \A old \in Records(GetJobHistory(j)) :
                    \E new \in Records(GetJobHistory(j)') :
                        /\ new.history_id = old.history_id
                        /\ new.row.job_name = old.row.job_name]_vars

\* C26: a job ran, was renamed, ran again and was deleted; its two
\* history records have the two names.
C26_Witness ==
    \E j \in JobIds \ Stored :
        /\ Len(GetJobHistory(j)) = 2
        /\ GetJobHistory(j)[1].row.job_name = <<"j", "2">>
        /\ GetJobHistory(j)[2].row.job_name = <<"J", " ", "1">>
        /\ GetJobHistory(j)[1].row.status = "success"

\* C27 (a run does not write the job store).  No step of an invocation
\* of execute_job, from the request or the firing that starts it to its
\* return as rejected, success or failed, changes a row of the jobs table,
\* updated_at and enabled included, or the job_id counter.
C27_RunKeepsJobStore ==
    [][(\E r \in RunIds : runs'[r] # runs[r]) =>
           /\ jobs' = jobs
           /\ next_job_id' = next_job_id]_vars

\* C27: a run was rejected and a run has failed, and the job whose run
\* failed is stored and enabled as it was created.
C27_Witness ==
    \E r, q \in RunIds :
        /\ runs[r].pc = "done" /\ runs[r].result.status = "error"
        /\ Returned(q) /\ runs[q].result.status = "failed"
        /\ GetJob(runs[q].job_id).enabled
        /\ GetJob(runs[q].job_id).updated_at = "created"

\* The limits asked for: none, fewer than, as many as and more than the
\* rows a job can have.
Limits == 0..MaxRuns \cup {HistoryLimit}

HistoryOf(j) == { h \in 1..Len(job_history) : job_history[h].job_id = j }

\* C28 (history listing).  get_job_history(job_id, limit) returns
\* min(limit, the number of the job's rows) records, each a row of the job
\* and no row twice, in non-increasing order of started_at, and the rows
\* left out started no later than those returned.  last_run of
\* get_job_with_last_run and list_jobs_with_last_run is None exactly when
\* the job has no history row, and else the started_at, completed_at,
\* status and records_processed of the first record of the listing.
C28_HistoryListing ==
    /\ \A j \in JobIds, limit \in Limits :
          LET listing == GetJobHistoryLimit(j, limit)
              ids == { listing[i].history_id : i \in 1..Len(listing) }
          IN /\ Len(listing) <= limit
             /\ Len(listing) = limit \/ ids = HistoryOf(j)
             /\ ids \subseteq HistoryOf(j) /\ Cardinality(ids) = Len(listing)
             /\ \A i \in 1..Len(listing) :
                    /\ listing[i].row = job_history[listing[i].history_id]
                    /\ listing[i].row.job_id = j
             /\ \A p, q \in 1..Len(listing) :
                    p < q => listing[p].row.started_at >= listing[q].row.started_at
             /\ \A h \in HistoryOf(j) \ ids, i \in 1..Len(listing) :
                    job_history[h].started_at <= listing[i].row.started_at
    /\ \A j \in Stored :
          LET last_run == GetJobWithLastRun(j).last_run
              listing == GetJobHistory(j)
          IN /\ GetJobWithLastRun(j).job = GetJob(j)
             /\ GetJobWithLastRun(j) \in ListJobsWithLastRun
             /\ ~last_run.exists <=> HistoryOf(j) = {}
             /\ last_run.exists =>
                    /\ last_run.started_at = listing[1].row.started_at
                    /\ last_run.completed_at = listing[1].row.completed_at
                    /\ last_run.status = listing[1].row.status
                    /\ last_run.records_processed
                           = listing[1].row.records_processed

\* C28: a job has two history rows, the later started one still
\* 'running' and the other failed; the listing with limit 1 is the running
\* one, which is the job's last_run, and the other job has no last_run.
C28_Witness ==
    \E j, k \in Stored :
        /\ Len(GetJobHistory(j)) = 2
        /\ Len(GetJobHistoryLimit(j, 1)) = 1
        /\ GetJobHistory(j)[1].row.started_at > GetJobHistory(j)[2].row.started_at
        /\ GetJobHistory(j)[1].row.status = "running"
        /\ GetJobHistory(j)[2].row.status = "failed"
        /\ GetJobWithLastRun(j).last_run.status = "running"
        /\ ~GetJobWithLastRun(k).last_run.exists

\* The ids create_job has returned so far: job_id is AUTOINCREMENT, so they
\* are the ids up to the largest one the table ever held.
Assigned == 1..(next_job_id - 1)

\* What create_job does with a definition in the current state.
Created(i) ==
    CreateJob(i.job_name, i.config.source_type, i.config.source_config,
              i.config.sink_type, i.config.sink_config, i.query, i.schedule)

\* C29 (create round trip and identity).  A create request with a name no
\* stored job holds returns a positive job id that no job was given
\* before, deleted jobs included; get_job of that id then returns the
\* name, the types, the configurations, the query and the schedule as
\* given, with enabled true; and no other job changes.
C29_CreateRoundTrip ==
    /\ [](Stored \subseteq Assigned)
    /\ [][\A i \in CreateInputs :
            (CreateWith(i) /\ ~NameTaken(i.job_name, {})) =>
               \E id \in JobIds :
                  /\ Created(i).raised = NULL
                  /\ Created(i).job_id = id
                  /\ id > 0
                  /\ id \notin Assigned
                  /\ ~GetJob(id).exists
                  /\ GetJob(id)'.exists
                  /\ GetJob(id)'.job_name = i.job_name
                  /\ GetJob(id)'.source_type = i.config.source_type
                  /\ GetJob(id)'.source_config = i.config.source_config
                  /\ GetJob(id)'.sink_type = i.config.sink_type
                  /\ GetJob(id)'.sink_config = i.config.sink_config
                  /\ GetJob(id)'.query = i.query
                  /\ GetJob(id)'.schedule = i.schedule
                  /\ GetJob(id)'.enabled = TRUE
                  /\ \A j \in JobIds \ {id} : jobs'[j] = jobs[j]]_vars

\* C29: the first job was deleted, and the job created after that has the
\* next id, a configuration of several keys, a query and a schedule.
C29_Witness ==
    /\ Assigned = {1, 2} /\ Stored = {2}
    /\ GetJob(2).source_config = {"file_path", "sheet_name"}
    /\ GetJob(2).sink_config = {"directory", "compression"}
    /\ GetJob(2).query = "SELECT * FROM orders"
    /\ GetJob(2).schedule = GoodCron
    /\ GetJob(2).enabled

\* The status of a history record, "none" before the record is created.
StatusOf(h) ==
    IF h <= Len(job_history) THEN job_history[h].status ELSE "none"

\* C30 (run termination).  Every history record created in status
\* 'running' eventually has the status success or failed.
C30_RunsTerminate ==
    \A h \in 1..MaxRuns :
        (StatusOf(h) = "running") ~> (StatusOf(h) \in {"success", "failed"})

\* A run takes the step from one statement group to the next.
Moves(r, from, to) == runs[r].pc = from /\ runs'[r].pc = to

\* C31 (fire-time lookup).  A run started by a trigger reads the job from
\* the job store when it starts: it is rejected when the job is gone or
\* disabled by then, and otherwise it records the name, builds the source
\* and the sink, takes the query and names the target as that stored
\* definition has them, whatever the job was when the trigger was
\* registered.
C31_FireTimeLookup ==
    [][\A r \in RunIds :
          runs[r].via = "sched" =>
            /\ (runs[r].pc = "get_job" /\ runs'[r].pc # "get_job") =>
                  IF GetJob(runs[r].job_id).exists
                     /\ GetJob(runs[r].job_id).enabled
                  THEN /\ runs'[r].pc = "begin"
                       /\ runs'[r].job = GetJob(runs[r].job_id)
                  ELSE /\ runs'[r].pc = "done"
                       /\ runs'[r].result.status = "error"
                       /\ runs'[r].history_id = 0
            /\ Moves(r, "begin", "log_start") =>
                  job_history'[runs'[r].history_id].job_name
                      = runs[r].job.job_name
            /\ Moves(r, "create_source", "create_sink") =>
                  runs'[r].source.type = runs[r].job.source_type
            /\ Moves(r, "create_sink", "data_factory") =>
                  runs'[r].sink.type = runs[r].job.sink_type
            /\ Moves(r, "data_factory", "get_data") =>
                  runs'[r].query = QueryOf(runs[r].job)
            /\ Moves(r, "write_data", "close") =>
                  /\ runs'[r].table_name = TableName(runs[r].job.job_name)
                  /\ sink_store'[<<runs[r].job.sink_type,
                                   TableName(runs[r].job.job_name)>>].exists]_vars

\* C31: the job was renamed and given another source, sink and query
\* after its trigger was registered, and the trigger's next run recorded
\* the new name and wrote the new target of the new sink; after the job
\* was disabled, the trigger's next run was rejected.
C31_Witness ==
    /\ triggers[1].exists /\ triggers[1].name = <<"j", "2">>
    /\ runs[1].via = "sched" /\ runs[1].pc = "done"
    /\ runs[1].result.status = "success"
    /\ job_history[runs[1].history_id].job_name = <<"J", " ", "1">>
    /\ GetJobLogs(runs[1].history_id)[4].detail = "SELECT * FROM orders"
    /\ sink_store[<<"json", <<"j", "_", "1">>>>].exists
    /\ ~sink_store[<<"csv", <<"j", "2">>>>].exists
    /\ runs[2].via = "sched" /\ runs[2].pc = "done"
    /\ runs[2].result.status = "error"

\* C32 (query pass-through).  The query a run hands to get_data of its
\* source, and writes to its log, is the query of the job as stored: none
\* (NULL) for a job that has none.
C32_QueryPassThrough ==
    [][\A r \in RunIds :
          Moves(r, "data_factory", "get_data") =>
            /\ runs'[r].query = runs[r].job.query
            /\ Last(job_logs'[runs[r].history_id]).message = "Executing query"
            /\ Last(job_logs'[runs[r].history_id]).detail = runs[r].job.query]_vars

\* The INFO lines of a run that goes through its whole try block.
InfoMessages == Logged("update_success")

AllButLast(s) == SubSeq(s, 1, Len(s) - 1)

\* C33 (log shape of a run).  The log lines of a history record that is
\* failed are, in the order the run wrote them, INFO lines of the steps
\* in step order and then one ERROR line, the last, which carries the
\* record's error_message; those of a record that is success are the INFO
\* lines of all the steps, the completion line last, and no ERROR line.
C33_LogShape ==
    \A h \in 1..Len(job_history) :
        LET logs == job_logs[h]
            row == job_history[h]
        IN /\ row.status = "failed" =>
                /\ logs # <<>>
                /\ Last(logs).level = "ERROR"
                /\ Last(logs).message = "Job failed"
                /\ Last(logs).detail = row.error_message
                /\ \A i \in 1..(Len(logs) - 1) : logs[i].level = "INFO"
                /\ IsPrefix(Messages(AllButLast(logs)), InfoMessages)
           /\ row.status = "success" =>
                /\ \A i \in 1..Len(logs) : logs[i].level = "INFO"
                /\ Messages(logs) = InfoMessages
                /\ Last(logs).message = "Job completed successfully"

\* C33: one run failed in the construction of its source, with one INFO
\* line before the ERROR line, and another run succeeded.
C33_Witness ==
    \E h, k \in 1..Len(job_history) :
        /\ job_history[h].status = "failed"
        /\ job_history[h].error_message = UnknownSourceType
        /\ Messages(job_logs[h]) = <<"Starting job", "Job failed">>
        /\ job_history[k].status = "success"
        /\ Len(job_logs[k]) = Len(InfoMessages)

Terminal(status) == status \in {"success", "failed"}

\* C34 (log integrity).  Every log line carries the history_id of a
\* history record and that record's job_id, and no log line is added to a
\* record that has the status success or failed.
C34_LogIntegrity ==
    /\ [](\A h \in DOMAIN job_logs :
            /\ h \in 1..Len(job_history)
            /\ \A i \in 1..Len(job_logs[h]) :
                  /\ job_logs[h][i].history_id = h
                  /\ job_logs[h][i].job_id = job_history[h].job_id)
    /\ [][\A h \in 1..Len(job_history) :
            Terminal(job_history[h].status) =>
                /\ job_logs'[h] = job_logs[h]
                /\ job_history'[h] = job_history[h]]_vars

\* C34: the second job ran twice, once to success and once to failed, and
\* both runs wrote their lines.
C34_Witness ==
    /\ Len(job_history) = 2
    /\ job_history[1].job_id = 2 /\ job_history[2].job_id = 2
    /\ job_history[1].status = "success" /\ job_history[2].status = "failed"
    /\ Len(job_logs[1]) = Len(InfoMessages)
    /\ Len(job_logs[2]) > 1

\* C35 (trigger and job store consistency).  After any create, update and
\* delete requests the scheduler holds the trigger job_<id> exactly when
\* job id is stored with a schedule that is non-empty and a valid cron
\* expression, and the trigger has the schedule that is stored.  (The
\* scheduler keeps its jobs by id, and add_job is called with
\* replace_existing: there is one trigger for an id at most.)
C35_TriggerMatchesStore ==
    \A j \in JobIds :
        /\ triggers[j].exists <=>
              (/\ GetJob(j).exists
               /\ Truthy(GetJob(j).schedule)
               /\ ValidCron(GetJob(j).schedule))
        /\ triggers[j].exists => triggers[j].cron = GetJob(j).schedule

\* C35: one job lost its trigger to an update with a malformed
\* expression, and the other got one by an update.
C35_Witness ==
    /\ Stored = {1, 2}
    /\ GetJob(1).schedule = BadCron /\ ~triggers[1].exists
    /\ jobs[1].updated_at = "updated"
    /\ GetJob(2).schedule = GoodCron /\ triggers[2].exists
    /\ jobs[2].updated_at = "updated"

\* C36 (no run starts for a job that is gone or disabled).  When a run
\* inserts its history record, the job is stored and enabled.
C36_NoRunOfGoneJob ==
    [][\A r \in RunIds :
          Moves(r, "begin", "log_start") =>
            /\ GetJob(runs[r].job_id).exists
            /\ GetJob(runs[r].job_id).enabled]_vars

\* The target of a job in its sink: the table or file its runs write.
TargetOf(job) == sink_store[<<job.sink_type, TableName(job.job_name)>>]

\* C37 (the sink agrees with the last run).  When no run of a job is in
\* progress and the run of the job that started last is a success, the
\* target of the job holds the rows that run loaded, as many as the
\* run's records_processed.
C37_SinkAgreesWithLastRun ==
    \A j \in Stored :
        (/\ RunsOf(j) = {}
         /\ LastRun(j).exists
         /\ LastRun(j).status = "success")
        => /\ TargetOf(GetJob(j)).exists
           /\ TargetOf(GetJob(j)).rows = Frame(LastRun(j).records_processed)

\* C38 (target isolation between jobs).  Two stored jobs with the same
\* sink type and configuration have different targets, and a run that
\* writes its target leaves alone what a finished run of another job
\* wrote to that sink.
C38_TargetIsolation ==
    /\ [](\A i, j \in Stored :
            (/\ i # j
             /\ GetJob(i).sink_type = GetJob(j).sink_type
             /\ GetJob(i).sink_config = GetJob(j).sink_config)
            => TableName(GetJob(i).job_name) # TableName(GetJob(j).job_name))
    /\ [][\A r, q \in RunIds :
            (/\ Moves(r, "write_data", "close")
             /\ runs[q].pc = "done" /\ runs[q].result.status = "success"
             /\ runs[q].job_id # runs[r].job_id
             /\ runs[q].sink.type = runs[r].sink.type)
            => sink_store'[<<runs[q].sink.type, runs[q].table_name>>]
                 = sink_store[<<runs[q].sink.type, runs[q].table_name>>]]_vars

\* C39 (scheduled-job name freshness).  Every job listed by GET
\* /scheduler/jobs has the name its job has in the job store.
C39_ScheduledNameFresh ==
    \A t \in GetScheduledJobs : t.name = GetJob(t.id).job_name

\* C40 (triggers survive a restart).  When the process has started on a
\* job store, the scheduler holds a trigger for every stored job whose
\* schedule is a valid cron expression.
C40_TriggersSurviveRestart ==
    [][Restart =>
         \A j \in Stored :
            ValidCron(GetJob(j).schedule) => triggers'[j].exists]_vars

====
